---- MODULE Spec2Model ----
(***************************************************************************)
(* A model of ai-rename: the OCR staging with its on-disk cache, the       *)
(* naming call, filename validation, relocation, the directory walk and    *)
(* main's start-up and exit paths (src/ai-rename.py).                      *)
(*                                                                         *)
(* File names are sequences of tokens.  A token is a chunk of characters   *)
(* that the code never splits: one character of a base name, "-", one      *)
(* digit of a page ordinal, ".png", "_bw".  startswith / endswith / sorted *)
(* on the real strings agree with the same operations on token sequences.  *)
(***************************************************************************)
EXTENDS Integers, Sequences, FiniteSets, TLC

\* ----------------------------------------------------------------- bounds

\* The most pages a PDF of the initial tree has.
MaxPages == 2

\* ------------------------------------------------------------------ names

LowerSeq == <<"a","b","c","d","e","f","g","h","i","j","k","l","m",
              "n","o","p","q","r","s","t","u","v","w","x","y","z">>
UpperSeq == <<"A","B","C","D","E","F","G","H","I","J","K","L","M",
              "N","O","P","Q","R","S","T","U","V","W","X","Y","Z">>
DigitSeq == <<"0","1","2","3","4","5","6","7","8","9">>

Range(s) == {s[i] : i \in 1..Len(s)}
Lower == Range(LowerSeq)
Upper == Range(UpperSeq)
Digit == Range(DigitSeq)

IndexOf(s, t) == CHOOSE i \in 1..Len(s) : s[i] = t

\* The character code that decides Python's string order for a token: the
\* code of the token's first character.
Code(t) ==
    IF t = " " THEN 32
    ELSE IF t = "-" THEN 45
    ELSE IF t \in {".", ".png"} THEN 46
    ELSE IF t \in Digit THEN 47 + IndexOf(DigitSeq, t)
    ELSE IF t \in Upper THEN 64 + IndexOf(UpperSeq, t)
    ELSE IF t \in {"_", "_bw"} THEN 95
    ELSE IF t \in Lower THEN 96 + IndexOf(LowerSeq, t)
    ELSE 33

RECURSIVE LexLess(_, _)
\* s < t for Python strings.
LexLess(s, t) ==
    IF t = <<>> THEN FALSE
    ELSE IF s = <<>> THEN TRUE
    ELSE IF Head(s) = Head(t) THEN LexLess(Tail(s), Tail(t))
    ELSE Code(Head(s)) < Code(Head(t))

\* min(S) in string order.
MinName(S) == CHOOSE x \in S : \A y \in S \ {x} : LexLess(x, y)

RECURSIVE Sorted(_)
\* sorted(S): the names of S in ascending string order.
SortedFrom(S, m) == <<m>> \o Sorted(S \ {m})
Sorted(S) == IF S = {} THEN <<>> ELSE SortedFrom(S, MinName(S))

\* str.startswith
StartsWith(n, b) == Len(n) >= Len(b) /\ SubSeq(n, 1, Len(b)) = b

\* str.endswith('.png')
EndsWithPng(n) == Len(n) > 0 /\ n[Len(n)] = ".png"

\* The decimal digits of a page ordinal, as ImageMagick's %d writes them.
Ordinal(k) ==
    IF k < 10 THEN <<DigitSeq[k + 1]>>
    ELSE <<DigitSeq[(k \div 10) + 1], DigitSeq[(k % 10) + 1]>>

\* f"{base}-%d.png" for page k.
PageName(base, k) == base \o <<"-">> \o Ordinal(k) \o <<".png">>

\* f"{page_image}_bw.png" and f"{base}_bw.png".
BwName(n) == n \o <<"_bw", ".png">>

\* A function with one entry written (a file created or overwritten).
Put(f, k, v) == [x \in DOMAIN f \cup {k} |-> IF x = k THEN v ELSE f[x]]

\* A function with one entry removed.
Drop(f, k) == [x \in DOMAIN f \ {k} |-> f[x]]

\* ------------------------------------------------------------------ state

VARIABLES
    args,       \* argparse.Namespace: the mode flags and the directory argument
    docs,       \* what each source document holds: its page count and quality
    fs,         \* the target tree's files: path -> content
    dirs,       \* the target tree's directories (the root is <<>>)
    ws,         \* the RunWorkspace's files: name -> content
    wsExists,   \* whether the RunWorkspace directory exists
    pc,         \* where main is
    stack,      \* os.walk: the directories still to visit
    cur,        \* process_files: the directory being processed
    exitCode,   \* the process's exit status (-1 while it runs)
    last,       \* what the latest process_single_file call did
    hist,       \* history of the run: what was picked, placed, called
    config,     \* the configuration dictionary: which of its keys are there
    call        \* the latest call of a function applied on its own

vars ==
    <<args, docs, fs, dirs, ws, wsExists, pc, stack, cur, exitCode, last, hist,
      config, call>>

\* The source documents of the initial tree.
Ids == {"a", "b", "c"}

\* What the external tools make of a document: "ok"; "norender" (ImageMagick
\* writes no image); "illegible" (tesseract exits non-zero); "badbytes"
\* (tesseract's output is not valid UTF-8); "undecodable" (tesseract exits
\* non-zero and what it wrote is not valid UTF-8).  docs[id].faulty holds
\* the ordinals of the pages the quality is about; the other pages are
\* "ok" once they are rendered.
Qualities == {"ok", "norender", "illegible", "badbytes", "undecodable"}

\* What tesseract makes of the image img.
PageQuality(img) ==
    IF docs[img.src].quality = "norender" \/ img.page \in docs[img.src].faulty
    THEN docs[img.src].quality
    ELSE "ok"

\* -------------------------------------------------------------------- OCR
\* Each operator below takes the values it reads more than once as
\* parameters, so that a value is computed once.

\* One external tool invocation: the tool, and whether the file it writes
\* is in the RunWorkspace.
Tool(t, inWs) == [tool |-> t, inWs |-> inWs]

\* The page images ImageMagick writes for document `id` of np pages.
RasterPages(w, base, id, np) ==
    [n \in DOMAIN w \cup {PageName(base, k) : k \in 0..(np - 1)} |->
        IF \E k \in 0..(np - 1) : PageName(base, k) = n
        THEN [src |-> id, gen |-> 0, enh |-> FALSE,
              page |-> CHOOSE k \in 0..(np - 1) : PageName(base, k) = n]
        ELSE w[n]]

\* magick convert -density 300 <file_path> ... <ws>/<base>-%d.png
Rasterize(w, fsys, p) ==
    IF p \in DOMAIN fsys /\ docs[fsys[p].id].quality # "norender"
    THEN RasterPages(w, p.base, fsys[p].id, docs[fsys[p].id].pages)
    ELSE w

\* tesseract <bw> stdout ..., with the two except clauses of the callers:
\* the text it contributes (a sequence of at most one page text), the tool
\* invocations made, and whether an exception leaves the caller.  The
\* command line reads config['LANGUAGE'].  subprocess.run decodes the
\* output before it looks at the exit status, and the second run, inside
\* the except clause, is made with check=True.
RecognizeAs(img, q) ==
    IF ~config.language
    THEN [text |-> <<>>, tools |-> <<>>, raised |-> TRUE]
    ELSE IF q = "ok"
    THEN [text |-> <<[img |-> img, lossy |-> FALSE]>>,
          tools |-> <<Tool("recognize", FALSE)>>, raised |-> FALSE]
    ELSE IF q = "badbytes"
    THEN [text |-> <<[img |-> img, lossy |-> TRUE]>>,
          tools |-> <<Tool("recognize", FALSE), Tool("recognize", FALSE)>>,
          raised |-> FALSE]
    ELSE IF q = "undecodable"
    THEN [text |-> <<>>,
          tools |-> <<Tool("recognize", FALSE), Tool("recognize", FALSE)>>,
          raised |-> TRUE]
    ELSE [text |-> <<>>, tools |-> <<Tool("recognize", FALSE)>>, raised |-> FALSE]

Recognize(w, bw) ==
    IF bw \in DOMAIN w
    THEN RecognizeAs(w[bw], PageQuality(w[bw]))
    ELSE IF config.language
    THEN [text |-> <<>>, tools |-> <<Tool("recognize", FALSE)>>, raised |-> FALSE]
    ELSE [text |-> <<>>, tools |-> <<>>, raised |-> TRUE]

\* The files perform_pdf_ocr takes for the page images of base name `base`:
\* those that start with the base name and end with .png.
CachedImages(w, base) == {n \in DOMAIN w : StartsWith(n, base) /\ EndsWithPng(n)}

\* mogrify -contrast -sharpen on the page image, then magick convert
\* -threshold 50% into bw, when bw is not there yet.
Preprocess(w, image_file, bw) ==
    IF bw \notin DOMAIN w
    THEN Put(Put(w, image_file, [w[image_file] EXCEPT !.enh = TRUE]),
             bw, [w[image_file] EXCEPT !.gen = @ + 1, !.enh = FALSE])
    ELSE w

PreprocessTools(w, bw) ==
    IF bw \notin DOMAIN w
    THEN <<Tool("enhance", TRUE), Tool("binarize", TRUE)>>
    ELSE <<>>

PageResult(acc, w1, t1, r) ==
    [w |-> w1, text |-> acc.text \o r.text, tools |-> acc.tools \o t1 \o r.tools,
     raised |-> r.raised]

PageStepOn(acc, bw, w1) ==
    PageResult(acc, w1, PreprocessTools(acc.w, bw), Recognize(w1, bw))

\* The body of perform_pdf_ocr's loop for one image file.
PageStep(acc, image_file) ==
    PageStepOn(acc, BwName(image_file), Preprocess(acc.w, image_file, BwName(image_file)))

RECURSIVE OcrPages(_, _)
\* for image_file in sorted(cached_images); an exception ends the loop.
OcrPages(order, acc) ==
    IF order = <<>> \/ acc.raised THEN acc
    ELSE OcrPages(Tail(order), PageStep(acc, Head(order)))

\* What perform_pdf_ocr leaves: ocr_text, or nothing when an exception
\* left it.
PdfResult(r, fsys) ==
    [w |-> r.w, fs |-> fsys, text |-> IF r.raised THEN <<>> ELSE r.text,
     tools |-> r.tools, raised |-> r.raised]

\* perform_pdf_ocr from the listing of cached_images on: w1 is the
\* workspace and t1 the tools invoked by then.
PdfLoop(w1, t1, base, fsys) ==
    PdfResult(OcrPages(Sorted(CachedImages(w1, base)),
                       [w |-> w1, text |-> <<>>, tools |-> t1, raised |-> FALSE]),
              fsys)

\* perform_pdf_ocr: the workspace after it, the text and the tools invoked.
\* Rasterization runs when no cached image is found, and the workspace is
\* then listed again.
PerformPdfOcr(w, fsys, p) ==
    IF CachedImages(w, p.base) = {}
    THEN PdfLoop(Rasterize(w, fsys, p), <<Tool("rasterize", TRUE)>>, p.base, fsys)
    ELSE PdfLoop(w, <<>>, p.base, fsys)

ImageResult(w1, fs1, t1, r) ==
    [w |-> w1, fs |-> fs1, text |-> r.text, tools |-> t1 \o r.tools,
     raised |-> r.raised]

\* perform_image_ocr when the binarized image is missing: mogrify works on
\* the source file itself, convert writes bw into the workspace.
ImagePreprocess(w, fsys, p, bw) ==
    IF p \in DOMAIN fsys /\ docs[fsys[p].id].quality # "norender"
    THEN ImageResult(Put(w, bw, [src |-> fsys[p].id, page |-> 0, gen |-> 1, enh |-> FALSE]),
                     [fsys EXCEPT ![p].altered = TRUE],
                     <<Tool("enhance", FALSE), Tool("binarize", TRUE)>>,
                     Recognize(Put(w, bw, [src |-> fsys[p].id, page |-> 0, gen |-> 1,
                                           enh |-> FALSE]), bw))
    ELSE ImageResult(w, fsys, <<Tool("enhance", FALSE), Tool("binarize", TRUE)>>,
                     Recognize(w, bw))

\* perform_image_ocr
PerformImageOcr(w, fsys, p) ==
    IF BwName(p.base) \notin DOMAIN w
    THEN ImagePreprocess(w, fsys, p, BwName(p.base))
    ELSE ImageResult(w, fsys, <<>>, Recognize(w, BwName(p.base)))

\* perform_ocr: dispatch on the extension; the text is stripped, so it is
\* empty exactly when no page contributed text.
PerformOcr(w, fsys, p) ==
    IF p.ext = ".pdf" THEN PerformPdfOcr(w, fsys, p)
    ELSE IF p.ext \in {".jpg", ".png"} THEN PerformImageOcr(w, fsys, p)
    ELSE [w |-> w, fs |-> fsys, text |-> <<>>, tools |-> <<>>, raised |-> FALSE]

\* ----------------------------------------------------------------- naming

\* What the completion endpoint may answer to requests.post in
\* generate_filename: a 2xx answer whose first choice holds `content`, or a
\* failure.  "timeout", "network", "http400", "http500": a
\* requests.RequestException; "badjson": an undecodable body; "nokey": a body
\* without choices, message or content (KeyError); "nochoice": an empty
\* choices list (IndexError); "nullcontent": a content of null
\* (AttributeError on .strip()).
HttpFailures == {"timeout", "network", "http400", "http500", "badjson",
                 "nokey", "nochoice", "nullcontent"}

\* The failures generate_filename's except clause names.
HttpCaught == {"timeout", "network", "http400", "http500", "badjson", "nokey"}

\* generate_filename around its request: config['prompts'] is read before
\* the try block, config['API_TOKEN'] inside it (a KeyError the except
\* clause names), both before anything is sent.
Configured(answer) ==
    IF ~config.prompts
    THEN [name |-> <<>>, raised |-> TRUE, requests |-> 0, first |-> "noprompt"]
    ELSE IF ~config.api_token
    THEN [name |-> <<>>, raised |-> FALSE, requests |-> 0, first |-> "notoken"]
    ELSE answer

\* generate_filename without response.raise_for_status(): the body of an
\* answer with an error status is read like any other.
GenerateFilenameUnchecked(resp) ==
    Configured(IF resp.kind \in {"ok", "http400", "http500"}
               THEN [name |-> resp.content, raised |-> FALSE, requests |-> 1,
                     first |-> resp.kind]
               ELSE [name |-> <<>>, raised |-> resp.kind \notin HttpCaught,
                     requests |-> 1, first |-> resp.kind])

\* generate_filename: one request; the proposal ('' as <<>>), and whether an
\* exception leaves the function.
GenerateFilename(resp) ==
    Configured(IF resp.kind = "ok"
               THEN [name |-> resp.content, raised |-> FALSE, requests |-> 1,
                     first |-> "ok"]
               ELSE [name |-> <<>>, raised |-> resp.kind \notin HttpCaught,
                     requests |-> 1, first |-> resp.kind])

\* What litellm.completion may do in call_llm: answer ("ok"), raise
\* BadRequestError ("badrequest"), raise another litellm exception such as
\* APIConnectionError or Timeout ("network"), or answer with a body that
\* lacks a key ("nokey"), has no choice ("nochoice") or a null content
\* ("nullcontent").
LlmFailures == {"badrequest", "network", "nokey", "nochoice", "nullcontent"}

\* The failures call_llm's second except clause names.
LlmParseCaught == {"nokey", "nochoice"}

\* One pass of call_llm's loop body that does not `continue`.
LlmAttempt(r, n, first) ==
    IF r.kind = "ok"
    THEN [text |-> r.content, raised |-> FALSE, requests |-> n, first |-> first]
    ELSE [text |-> "", requests |-> n, first |-> first,
          raised |-> r.kind \notin (LlmParseCaught \cup {"badrequest"})]

\* call_llm: for attempt in range(2), with r1 and r2 what the first and the
\* second request meet.
CallLlm(r1, r2) ==
    IF r1.kind = "badrequest" THEN LlmAttempt(r2, 2, r1.kind)
    ELSE LlmAttempt(r1, 1, r1.kind)

\* ------------------------------------------------------------- validation

\* re.sub(r'[^a-zA-Z0-9 ]', ' ', filename)
ReplaceInvalid(s) ==
    [i \in 1..Len(s) |-> IF s[i] \in Lower \cup Upper \cup Digit \cup {" "}
                         THEN s[i] ELSE " "]

\* re.sub(r'\s+', ' ', s) on a string whose only whitespace is the space:
\* a space followed by a space is dropped.
CollapseSpaces(s) ==
    SelectSeq([i \in 1..Len(s) |->
                  IF i < Len(s) /\ s[i] = " " /\ s[i + 1] = " " THEN "" ELSE s[i]],
              LAMBDA c : c # "")

\* str.strip() on a string whose runs of spaces are already single.
StripRight(a) == IF Len(a) > 0 /\ a[Len(a)] = " " THEN SubSeq(a, 1, Len(a) - 1) ELSE a
Strip(s) == StripRight(IF Len(s) > 0 /\ s[1] = " " THEN Tail(s) ELSE s)

\* re.sub(r'([a-z])([A-Z])', r'\1 \2', s, count=1): only the first place
\* is split.
SplitCamelOnce(s) ==
    IF \E i \in 1..(Len(s) - 1) : s[i] \in Lower /\ s[i + 1] \in Upper
    THEN SubSeq(s, 1, CHOOSE i \in 1..(Len(s) - 1) :
                        /\ s[i] \in Lower /\ s[i + 1] \in Upper
                        /\ \A j \in 1..(i - 1) : ~(s[j] \in Lower /\ s[j + 1] \in Upper))
         \o <<" ">>
         \o SubSeq(s, 1 + CHOOSE i \in 1..(Len(s) - 1) :
                        /\ s[i] \in Lower /\ s[i + 1] \in Upper
                        /\ \A j \in 1..(i - 1) : ~(s[j] \in Lower /\ s[j + 1] \in Upper),
                   Len(s))
    ELSE s

\* re.sub(r'([a-z])([A-Z])', r'\1 \2', s): a space goes after every
\* lower-case letter that an upper-case letter follows.
SplitCamel(s) ==
    SelectSeq([j \in 1..(2 * Len(s)) |->
                  IF j % 2 = 1 THEN s[(j + 1) \div 2]
                  ELSE IF j < 2 * Len(s) /\ s[j \div 2] \in Lower
                          /\ s[(j \div 2) + 1] \in Upper
                  THEN " " ELSE ""],
              LAMBDA c : c # "")

\* clean_filename of ai-rename.py: the cleaned name, or '' (<<>>).
LengthCheck(cleaned_content) ==
    IF 15 <= Len(cleaned_content) /\ Len(cleaned_content) <= 100
    THEN cleaned_content ELSE <<>>

CleanFilename(filename) ==
    LengthCheck(SplitCamel(Strip(CollapseSpaces(ReplaceInvalid(filename)))))

\* -------------------------------------------------------------- relocation

\* A path of the target tree: the directory (a sequence of names below the
\* root), the file's base name and its extension.
Path(dir, base, ext) == [dir |-> dir, base |-> base, ext |-> ext]

\* shutil.move(src, dst) and os.rename(src, dst): dst is replaced if it is
\* there.
MoveFile(fsys, src, dst) == Put(Drop(fsys, src), dst, fsys[src])

\* shutil.copy2(src, dst): dst is replaced if it is there.
CopyFile(fsys, src, dst) == Put(fsys, dst, fsys[src])

\* move_or_copy_file.  e.copyOk and e.moveOk say whether the filesystem
\* lets the copy and the move (or rename) succeed; an OSError is caught
\* here, after whatever was done before it.
MoveOrCopyFile(fsys, file_path, new_filepath, orig_path, e) ==
    IF args.dry_run THEN [fs |-> fsys, outcome |-> "dry"]
    ELSE IF args.move
    THEN IF e.moveOk /\ file_path \in DOMAIN fsys
         THEN [fs |-> MoveFile(fsys, file_path, new_filepath), outcome |-> "moved"]
         ELSE [fs |-> fsys, outcome |-> "failed"]
    ELSE IF args.copy
    THEN IF e.copyOk /\ file_path \in DOMAIN fsys
         THEN IF e.moveOk
              THEN [fs |-> MoveFile(CopyFile(fsys, file_path, new_filepath),
                                    file_path, orig_path),
                    outcome |-> "copied"]
              ELSE [fs |-> CopyFile(fsys, file_path, new_filepath),
                    outcome |-> "copy_only"]
         ELSE [fs |-> fsys, outcome |-> "failed"]
    ELSE IF e.moveOk /\ file_path \in DOMAIN fsys
         THEN [fs |-> MoveFile(fsys, file_path, new_filepath), outcome |-> "renamed"]
         ELSE [fs |-> fsys, outcome |-> "failed"]

NoNaming == [called |-> FALSE, name |-> <<>>, raised |-> FALSE, requests |-> 0,
             first |-> "none"]

NoLlm == [called |-> FALSE, text |-> "", raised |-> FALSE, requests |-> 0,
          first |-> "none"]

NoOcr == [called |-> FALSE, text |-> <<>>, tools |-> <<>>, raised |-> FALSE]

\* What a perform_ocr call did.
OcrCalled(o) == [called |-> TRUE, text |-> o.text, tools |-> o.tools, raised |-> o.raised]

NoTarget == Path(<<>>, <<>>, "")

Called(r) == [called |-> TRUE, name |-> r.name, raised |-> r.raised,
              requests |-> r.requests, first |-> r.first]

\* rename_file returns before move_or_copy_file (or an exception leaves it).
NotRelocated(fsys, g, cleaned_filename) ==
    [fs |-> fsys, naming |-> Called(g), cleaned |-> cleaned_filename,
     target |-> NoTarget, outcome |-> "none"]

Relocated(g, cleaned_filename, new_filepath, m) ==
    [fs |-> m.fs, naming |-> Called(g), cleaned |-> cleaned_filename,
     target |-> new_filepath, outcome |-> m.outcome]

\* rename_file from the validation on.
RenameCleaned(fsys, file_path, done_dir, orig_dir, e, g, cleaned_filename) ==
    IF cleaned_filename = <<>>
    THEN NotRelocated(fsys, g, cleaned_filename)
    ELSE Relocated(g, cleaned_filename, Path(done_dir, cleaned_filename, file_path.ext),
                   MoveOrCopyFile(fsys, file_path,
                                  Path(done_dir, cleaned_filename, file_path.ext),
                                  Path(orig_dir, file_path.base, file_path.ext), e))

\* rename_file from the naming call's return on.
RenameNamed(fsys, file_path, done_dir, orig_dir, e, g) ==
    IF g.raised \/ g.name = <<>>
    THEN NotRelocated(fsys, g, <<>>)
    ELSE RenameCleaned(fsys, file_path, done_dir, orig_dir, e, g, CleanFilename(g.name))

\* rename_file: the naming call, validation, then relocation into done_dir.
RenameFile(fsys, file_path, done_dir, orig_dir, e) ==
    RenameNamed(fsys, file_path, done_dir, orig_dir, e, GenerateFilename(e.resp))

DocResult(o, r) ==
    [w |-> o.w, fs |-> r.fs,
     ocr1 |-> OcrCalled(o),
     naming |-> r.naming, cleaned |-> r.cleaned, target |-> r.target,
     outcome |-> r.outcome]

\* process_pdf and process_image without the test for empty text.
ProcessOcredAlways(o, file_path, done_dir, orig_dir, e) ==
    IF ~o.raised /\ args.rename
    THEN DocResult(o, RenameFile(o.fs, file_path, done_dir, orig_dir, e))
    ELSE DocResult(o, [fs |-> o.fs, naming |-> NoNaming, cleaned |-> <<>>,
                       target |-> NoTarget, outcome |-> "none"])

\* process_pdf and process_image from perform_ocr's return on: stop on
\* empty text (or on the exception that left perform_ocr), rename_file
\* under args.rename.
ProcessOcred(o, file_path, done_dir, orig_dir, e) ==
    IF ~o.raised /\ o.text # <<>> /\ args.rename
    THEN DocResult(o, RenameFile(o.fs, file_path, done_dir, orig_dir, e))
    ELSE DocResult(o, [fs |-> o.fs, naming |-> NoNaming, cleaned |-> <<>>,
                       target |-> NoTarget, outcome |-> "none"])

\* process_pdf and process_image (they differ only in perform_ocr's
\* dispatch).
ProcessDoc(w, fsys, file_path, done_dir, orig_dir, e) ==
    ProcessOcred(PerformOcr(w, fsys, file_path), file_path, done_dir, orig_dir, e)

\* The name save_summary writes in the RunWorkspace.
SummaryName(base) == base \o <<"_summary.txt">>

\* generate_summary from perform_ocr's return on: the prompt is read from
\* config['prompts'], then call_llm, then save_summary on a non-empty
\* answer; the except clause catches what perform_ocr, the lookup or
\* call_llm raised.
SummaryResult(o, l, file_path) ==
    IF o.raised \/ ~config.prompts
    THEN [w |-> o.w, fs |-> o.fs, ocr2 |-> OcrCalled(o), llm |-> NoLlm]
    ELSE [w |-> IF ~l.raised /\ l.text # ""
                THEN Put(o.w, SummaryName(file_path.base),
                         [src |-> "summary", page |-> 0, gen |-> 0, enh |-> FALSE])
                ELSE o.w,
          fs |-> o.fs,
          ocr2 |-> OcrCalled(o),
          llm |-> [called |-> TRUE, text |-> l.text, raised |-> l.raised,
                   requests |-> l.requests, first |-> l.first]]

\* generate_summary: OCR once more, then call_llm.
GenerateSummary(w, fsys, file_path, e) ==
    SummaryResult(PerformOcr(w, fsys, file_path), CallLlm(e.r1, e.r2), file_path)

FileResult(d, g) ==
    [w |-> g.w, fs |-> g.fs, ocr1 |-> d.ocr1, naming |-> d.naming,
     cleaned |-> d.cleaned, target |-> d.target, outcome |-> d.outcome,
     ocr2 |-> g.ocr2, llm |-> g.llm]

\* process_file from process_func's return on: the summary under
\* args.summarize.
Summarized(d, file_path, e) ==
    IF args.summarize
    THEN FileResult(d, GenerateSummary(d.w, d.fs, file_path, e))
    ELSE FileResult(d, [w |-> d.w, fs |-> d.fs, ocr2 |-> NoOcr, llm |-> NoLlm])

\* process_file: process_func under try/except Exception, then the summary.
ProcessFile(w, fsys, file_path, done_dir, orig_dir, e) ==
    Summarized(ProcessDoc(w, fsys, file_path, done_dir, orig_dir, e), file_path, e)

\* ------------------------------------------------------------ the program

Root == <<>>
EmptyFn == [x \in {} |-> TRUE]

\* Proposals the naming service may answer with.
PInvoice == <<"I","n","v","o","i","c","e","_","A","C","M","E","_","2","0","2","4">>
PLetter == <<"l","e","t","t","e","r","T","o","B","o","b","J","o","n","e","s">>
PShort == <<"S","c","a","n">>
Proposals == {PInvoice, PLetter, PShort}

\* What generate_filename's request may meet.
Responses ==
    [kind : {"ok"}, content : Proposals]
        \cup [kind : HttpFailures, content : {PInvoice}]

\* What call_llm's request may meet.
LlmResponses ==
    [kind : {"ok"}, content : {"Test successful", "a summary", ""}]
        \cup [kind : LlmFailures, content : {""}]

\* What generate_filename's request meets during a run: a proposal that
\* passes validation, one that is too short, a failure the function
\* catches (a status, a dropped connection) and one it does not.
RunResponses ==
    { [kind |-> "ok", content |-> PInvoice], [kind |-> "ok", content |-> PShort],
      [kind |-> "http400", content |-> PInvoice],
      [kind |-> "network", content |-> PInvoice],
      [kind |-> "nochoice", content |-> PInvoice] }

\* What a request of generate_summary's call_llm meets during a run: a
\* summary, a body without the expected keys, a bad request, a network
\* failure.
LlmOk == [kind |-> "ok", content |-> "a summary"]
LlmBadRequest == [kind |-> "badrequest", content |-> ""]
LlmNetwork == [kind |-> "network", content |-> ""]
SummaryResponses == {LlmOk, [kind |-> "nokey", content |-> ""], LlmBadRequest, LlmNetwork}

\* The trees a run may start on.  Fresh: two documents in the root.
\* Revisited: a document in the root, next to the done/ and orig/ an
\* earlier run left, done/ holding that run's result.  Nested: a document
\* in the root and one of the same name in a sub-directory.
FileA == Path(Root, <<"a">>, ".pdf")
FileB == Path(Root, <<"b">>, ".png")
FileC == Path(<<"sub">>, <<"a">>, ".pdf")
FileD == Path(<<"done">>, CleanFilename(PInvoice), ".pdf")
Fresh(id) == [id |-> id, altered |-> FALSE]
FreshTree ==
    [fs |-> Put(Put(EmptyFn, FileA, Fresh("a")), FileB, Fresh("b")), dirs |-> {Root}]
RevisitedTree ==
    [fs |-> Put(Put(EmptyFn, FileA, Fresh("a")), FileD, Fresh("c")),
     dirs |-> {Root, <<"done">>, <<"orig">>}]
NestedTree ==
    [fs |-> Put(Put(EmptyFn, FileA, Fresh("a")), FileC, Fresh("c")),
     dirs |-> {Root, <<"sub">>}]

\* Mixed: a document and a file of another kind in the root.
FileN == Path(Root, <<"n">>, ".txt")
MixedTree ==
    [fs |-> Put(Put(EmptyFn, FileA, Fresh("a")), FileN, Fresh("b")), dirs |-> {Root}]

\* Clashing names: a PDF and an image with the same base name, and a PDF
\* whose base name starts with theirs.
FileAPng == Path(Root, <<"a">>, ".png")
FileAb == Path(Root, <<"a", "b">>, ".pdf")
ClashTree ==
    [fs |-> Put(Put(Put(EmptyFn, FileA, Fresh("a")), FileAPng, Fresh("b")),
                FileAb, Fresh("c")),
     dirs |-> {Root}]

\* A document: its page count, its quality, and the ordinals of the pages
\* the quality is about.
Doc(n, q, faulty) == [pages |-> n, quality |-> q, faulty |-> faulty]

\* The documents: the PDF "a" has 1..MaxPages pages, the image "b" one; "c"
\* is a one-page PDF.  Either every document is sound, or one of "a" and
\* "b" is not, or both give bytes that are not UTF-8.
DocQualities ==
    { <<"ok", "ok">>, <<"illegible", "ok">>, <<"ok", "norender">>,
      <<"badbytes", "badbytes">> }
DocChoices ==
    { [i \in Ids |-> IF i = "a" THEN Doc(n, q[1], 0..(n - 1))
                     ELSE IF i = "b" THEN Doc(1, q[2], {0})
                     ELSE Doc(1, "ok", {})] :
        n \in 1..MaxPages, q \in DocQualities }
Sound == [i \in Ids |-> Doc(1, "ok", {})]

\* parse_arguments: the flags main and FileProcessor read.  `directory` is
\* what the positional argument names: nothing, a path that does not
\* exist, a file (a.pdf of the root), or the root directory.  With
\* --test-llm, and without a directory to process, the mode flags are not
\* read; --copy is read by move_or_copy_file only, under --rename and
\* without --move.
ArgChoices ==
    { a \in [dry_run : BOOLEAN, rename : BOOLEAN, move : BOOLEAN, copy : BOOLEAN,
             summarize : BOOLEAN, debug : BOOLEAN, test_llm : BOOLEAN,
             progress_bar : {FALSE}, directory : {"none", "missing", "file", "dir"}] :
        /\ a.test_llm => a.directory = "none"
        /\ a.copy => a.rename /\ ~a.move
        /\ a.directory \in {"none", "missing"} =>
              ~a.dry_run /\ ~a.rename /\ ~a.move /\ ~a.copy /\ ~a.summarize }

\* A config.yaml with every key the program reads.
FullConfig == [language |-> TRUE, api_token |-> TRUE, prompts |-> TRUE]

\* The configurations that lack a key: the one create_config returns
\* (LANGUAGE and ORIG_SUBDIR only), and a config.yaml without LANGUAGE or
\* without API_TOKEN.
CreatedConfig == [language |-> TRUE, api_token |-> FALSE, prompts |-> FALSE]
PartialConfigs ==
    { CreatedConfig,
      [language |-> FALSE, api_token |-> TRUE, prompts |-> TRUE],
      [language |-> TRUE, api_token |-> FALSE, prompts |-> TRUE] }

\* The runs: every choice of flags on every scenario with a full
\* configuration and no progress bar; renaming runs with a partial
\* configuration; runs over a directory with --progress-bar; a plain run
\* over the directory of clashing names.
Runs ==
    [args : ArgChoices, tree : {FreshTree}, docs : DocChoices, config : {FullConfig}]
        \cup [args : ArgChoices, tree : {RevisitedTree, NestedTree}, docs : {Sound},
              config : {FullConfig}]
        \cup [args : [dry_run : {FALSE}, rename : {TRUE}, move : {FALSE},
                      copy : {FALSE}, summarize : BOOLEAN, debug : {FALSE},
                      test_llm : {FALSE}, progress_bar : {FALSE},
                      directory : {"file", "dir"}],
              tree : {FreshTree}, docs : {Sound}, config : PartialConfigs]
        \cup [args : [dry_run : {FALSE}, rename : BOOLEAN, move : {FALSE},
                      copy : {FALSE}, summarize : {FALSE}, debug : {FALSE},
                      test_llm : {FALSE}, progress_bar : {TRUE},
                      directory : {"dir"}],
              tree : {FreshTree, MixedTree, NestedTree}, docs : {Sound},
              config : {FullConfig}]
        \cup [args : [dry_run : {FALSE}, rename : {FALSE}, move : {FALSE},
                      copy : {FALSE}, summarize : {FALSE}, debug : {FALSE},
                      test_llm : {FALSE}, progress_bar : {FALSE},
                      directory : {"dir"}],
              tree : {ClashTree}, docs : {Sound}, config : {FullConfig}]

\* No function has been applied on its own.
NoCall == [op |-> "none"]

Idle == [root |-> Root, files |-> {}, done |-> Root, orig |-> Root, hasDirs |-> FALSE,
         bar |-> FALSE, total |-> 0, count |-> 0, updated |-> 0]

NoLast == [path |-> NoTarget, picked |-> FALSE, ocr1 |-> NoOcr, ocr2 |-> NoOcr,
           naming |-> NoNaming, llm |-> NoLlm, cleaned |-> <<>>, target |-> NoTarget,
           outcome |-> "none", created |-> {}, removed |-> {}, replaced |-> {}]

InitTree(t) ==
    /\ fs = t.fs
    /\ dirs = t.dirs
    /\ hist = [fs0 |-> t.fs, dirs0 |-> t.dirs, picked |-> {}, placed |-> {},
               repicked |-> {}, touched |-> FALSE, fatalAfterTouch |-> FALSE,
               cleanupCalled |-> FALSE]

Init ==
    /\ \E r \in Runs :
          args = r.args /\ docs = r.docs /\ config = r.config /\ InitTree(r.tree)
    /\ ws = EmptyFn
    /\ wsExists = FALSE
    /\ pc = "start"
    /\ stack = <<>>
    /\ cur = Idle
    /\ exitCode = -1
    /\ last = NoLast
    /\ call = NoCall

\* sys.exit(1), or an exception nobody catches: the interpreter shuts down.
Fatal ==
    /\ pc' = "exit"
    /\ exitCode' = 1
    /\ hist' = [hist EXCEPT !.fatalAfterTouch = hist.touched]

\* main up to FileProcessor(config, args): check_required_commands exits
\* when a command is missing; __init__ creates the RunWorkspace.
Startup ==
    /\ pc = "start"
    /\ \E installed \in BOOLEAN :
          IF installed
          THEN /\ wsExists' = TRUE
               /\ pc' = "ready"
               /\ UNCHANGED <<exitCode, hist>>
          ELSE /\ Fatal
               /\ UNCHANGED wsExists
    /\ UNCHANGED <<config, call, args, docs, fs, dirs, ws, stack, cur, last>>

RECURSIVE SetToSeq(_)
\* A listing of S in the order the operating system returns it: some fixed
\* order.
SetToSeqFrom(S, x) == <<x>> \o SetToSeq(S \ {x})
SetToSeq(S) == IF S = {} THEN <<>> ELSE SetToSeqFrom(S, CHOOSE y \in S : TRUE)

\* The extensions of extension_to_function.
Eligible == {".pdf", ".jpg", ".png"}

\* setup_directories: done/ and <ORIG_SUBDIR>/ are created under rename or
\* move, whatever dry_run says; create_directory exits when makedirs fails.
SetupDirectories(base_dir, mkOk) ==
    [failed |-> (args.rename \/ args.move) /\ ~mkOk,
     dirs |-> IF (args.rename \/ args.move) /\ mkOk
              THEN dirs \cup {Append(base_dir, "done"), Append(base_dir, "orig")}
              ELSE dirs,
     done |-> Append(base_dir, "done"), orig |-> Append(base_dir, "orig"),
     hasDirs |-> args.rename \/ args.move]

\* Whether makedirs may fail: it is called under rename or move only.
MkChoices == IF args.rename \/ args.move THEN BOOLEAN ELSE {TRUE}

\* The inputs one process_single_file call draws from its environment: the
\* naming service's answer, whether the filesystem lets the copy and the
\* move succeed, and what call_llm's two requests meet.  An input the
\* flags keep the call from reading is fixed.
EnvsOf(resps, copies, moves, firsts) ==
    [resp : resps, copyOk : copies, moveOk : moves,
     r1 : firsts \ {LlmBadRequest}, r2 : {LlmOk}]
        \cup [resp : resps, copyOk : copies, moveOk : moves,
              r1 : firsts \cap {LlmBadRequest}, r2 : {LlmOk, LlmNetwork}]

Envs ==
    EnvsOf(IF args.rename THEN RunResponses ELSE {[kind |-> "ok", content |-> PInvoice]},
           IF args.rename /\ ~args.dry_run /\ ~args.move /\ args.copy
           THEN BOOLEAN ELSE {TRUE},
           IF args.rename /\ ~args.dry_run THEN BOOLEAN ELSE {TRUE},
           IF args.summarize THEN SummaryResponses ELSE {LlmOk})

\* What the relocation put where, by its outcome.
PlacedBy(outcome, target, orig_path) ==
    IF outcome \in {"moved", "renamed", "copy_only"} THEN {target}
    ELSE IF outcome = "copied" THEN {target, orig_path}
    ELSE {}

\* The state after process_file returned r for the path f; `crashed` when
\* bar.update then raises.
Processed(f, d, r, crashed) ==
    /\ fs' = r.fs
    /\ ws' = r.w
    /\ last' = [path |-> f, picked |-> TRUE, ocr1 |-> r.ocr1, ocr2 |-> r.ocr2,
                naming |-> r.naming, llm |-> r.llm, cleaned |-> r.cleaned,
                target |-> r.target, outcome |-> r.outcome,
                created |-> DOMAIN r.fs \ DOMAIN fs,
                removed |-> DOMAIN fs \ DOMAIN r.fs,
                replaced |-> {q \in DOMAIN fs \cap DOMAIN r.fs : r.fs[q].id # fs[q].id}]
    /\ hist' = [hist EXCEPT
          !.picked = @ \cup {f},
          !.placed = @ \cup PlacedBy(r.outcome, r.target, Path(d.orig, f.base, f.ext)),
          !.repicked = @ \cup (IF f \in hist.placed THEN {f} ELSE {}),
          !.touched = TRUE,
          !.fatalAfterTouch = @ \/ crashed]

\* process_single_file returns at once, before any bar.update, when the
\* directories were not set up and the run renames or moves.
EarlyReturn(d) == ~d.hasDirs /\ (args.rename \/ args.move)

\* process_single_file(dir_path, file_name, dirs, file_count, bar) for the
\* path f.
RunSingleFile(f, d, e, crashed) ==
    IF EarlyReturn(d) \/ ~(f \in DOMAIN fs /\ f.ext \in Eligible)
    THEN /\ last' = [NoLast EXCEPT !.path = f]
         /\ hist' = [hist EXCEPT !.fatalAfterTouch = @ \/ (crashed /\ hist.touched)]
         /\ UNCHANGED <<fs, ws>>
    ELSE Processed(f, d, ProcessFile(ws, fs, f, d.done, d.orig, e), crashed)

LlmRecord(l) ==
    [called |-> TRUE, text |-> l.text, raised |-> l.raised,
     requests |-> l.requests, first |-> l.first]

TestLlmResult(l) ==
    /\ last' = [NoLast EXCEPT !.llm = LlmRecord(l)]
    /\ IF ~l.raised /\ l.text = "Test successful"
       THEN pc' = "finish" /\ UNCHANGED <<exitCode, hist>>
       ELSE Fatal

\* main, -t: test_llm_connectivity; call_llm is called outside its try, so
\* what call_llm raises ends the process.
TestLlm ==
    /\ pc = "ready"
    /\ args.test_llm
    /\ \E r1 \in LlmResponses, r2 \in LlmResponses : TestLlmResult(CallLlm(r1, r2))
    /\ UNCHANGED <<config, call, args, docs, fs, dirs, ws, wsExists, stack,
                   cur>>

\* main: no directory argument.
NoDirectory ==
    /\ pc = "ready"
    /\ ~args.test_llm
    /\ args.directory = "none"
    /\ Fatal
    /\ UNCHANGED <<config, call, args, docs, fs, dirs, ws, wsExists, stack,
                   cur, last>>

\* main: the path is neither a file nor a directory.
PathMissing ==
    /\ pc = "ready"
    /\ ~args.test_llm
    /\ args.directory = "missing"
    /\ Fatal
    /\ UNCHANGED <<config, call, args, docs, fs, dirs, ws, wsExists, stack,
                   cur, last>>

SingleFileIn(d) ==
    IF d.failed
    THEN /\ Fatal
         /\ UNCHANGED <<fs, dirs, ws, last>>
    ELSE /\ dirs' = d.dirs
         /\ pc' = "finish"
         /\ UNCHANGED exitCode
         /\ \E e \in Envs : RunSingleFile(FileA, d, e, FALSE)

\* main: the path is a file: setup_directories, then process_single_file.
SingleFile ==
    /\ pc = "ready"
    /\ ~args.test_llm
    /\ args.directory = "file"
    /\ \E mkOk \in MkChoices : SingleFileIn(SetupDirectories(Root, mkOk))
    /\ UNCHANGED <<config, call, args, docs, wsExists, stack, cur>>

\* main: the path is a directory: process_files starts os.walk on it.
StartWalk ==
    /\ pc = "ready"
    /\ ~args.test_llm
    /\ args.directory = "dir"
    /\ pc' = "walking"
    /\ stack' = <<Root>>
    /\ UNCHANGED <<config, call, args, docs, fs, dirs, ws, wsExists, cur,
                   exitCode, last, hist>>

\* The sub-directories and the files os.walk lists in `root`.
SubDirs(root) ==
    {x \in dirs : Len(x) = Len(root) + 1 /\ SubSeq(x, 1, Len(root)) = root}
FilesIn(root) == {p \in DOMAIN fs : p.dir = root}

\* process_files: total_files, the number of listed files with an eligible
\* extension.
TotalFiles(files) == Cardinality({p \in files : p.ext \in Eligible})

WalkInto(root, d) ==
    IF d.failed
    THEN /\ Fatal
         /\ UNCHANGED <<dirs, stack, cur>>
    ELSE /\ dirs' = d.dirs
         /\ stack' = SetToSeq(SubDirs(root)) \o Tail(stack)
         /\ cur' = [root |-> root, files |-> FilesIn(root), done |-> d.done,
                    orig |-> d.orig, hasDirs |-> d.hasDirs,
                    bar |-> args.progress_bar /\ TotalFiles(FilesIn(root)) > 0,
                    total |-> TotalFiles(FilesIn(root)), count |-> 0, updated |-> 0]
         /\ UNCHANGED <<pc, exitCode, hist>>

\* process_files: os.walk yields the next directory with the sub-directories
\* and files it holds now; setup_directories runs after that listing, and
\* os.walk later descends into the sub-directories of the listing.
WalkDir ==
    /\ pc = "walking"
    /\ cur.files = {}
    /\ stack # <<>>
    /\ \E mkOk \in MkChoices : WalkInto(Head(stack), SetupDirectories(Head(stack), mkOk))
    /\ UNCHANGED <<config, call, args, docs, fs, ws, wsExists, last>>

\* process_single_file for the file enumerate(files) gives next; its last
\* statement is bar.update(file_count + 1), which raises ValueError when
\* the value is above the bar's maxval (`overflow`): nothing catches it.
StepFile(f, overflow) ==
    /\ cur' = [cur EXCEPT !.files = @ \ {f}, !.count = @ + 1,
                          !.updated = IF cur.bar /\ ~EarlyReturn(cur)
                                      THEN cur.count + 1 ELSE @]
    /\ \E e \in Envs : RunSingleFile(f, cur, e, overflow)
    /\ IF overflow
       THEN pc' = "exit" /\ exitCode' = 1
       ELSE UNCHANGED <<pc, exitCode>>

\* process_files: one pass of the loop over the directory's files.
ProcessSingleFile ==
    /\ pc = "walking"
    /\ \E f \in cur.files :
          StepFile(f, cur.bar /\ ~EarlyReturn(cur) /\ cur.count + 1 > cur.total)
    /\ UNCHANGED <<config, call, args, docs, dirs, wsExists, stack>>

\* main's last two lines: processor.cleanup() unless args.debug.
Finish ==
    /\ \/ pc = "finish"
       \/ pc = "walking" /\ cur.files = {} /\ stack = <<>>
    /\ pc' = "exit"
    /\ exitCode' = 0
    /\ IF args.debug
       THEN UNCHANGED <<ws, wsExists, hist>>
       ELSE /\ ws' = EmptyFn
            /\ wsExists' = FALSE
            /\ hist' = [hist EXCEPT !.cleanupCalled = TRUE]
    /\ UNCHANGED <<config, call, args, docs, fs, dirs, stack, cur, last>>

\* The interpreter shuts down: the finalizer tempfile.TemporaryDirectory
\* registered (weakref.finalize, run at exit) removes the directory if it
\* is still there.
InterpreterExit ==
    /\ pc = "exit"
    /\ pc' = "exited"
    /\ ws' = EmptyFn
    /\ wsExists' = FALSE
    /\ UNCHANGED <<config, call, args, docs, fs, dirs, stack, cur, exitCode,
                   last, hist>>

Next ==
    \/ Startup
    \/ TestLlm
    \/ NoDirectory
    \/ PathMissing
    \/ SingleFile
    \/ StartWalk
    \/ WalkDir
    \/ ProcessSingleFile
    \/ Finish
    \/ InterpreterExit

Spec == Init /\ [][Next]_vars

\* ------------------------------------------ functions applied on their own

\* The most words a proposal passed to clean_filename is made of.
MaxWords == 3

\* The index of the last "." of s, 0 when it has none.
LastDot(s) ==
    IF \E i \in 1..Len(s) : s[i] = "."
    THEN CHOOSE i \in 1..Len(s) : s[i] = "." /\ \A j \in (i + 1)..Len(s) : s[j] # "."
    ELSE 0

\* os.path.splitext(s)[0] for a name without directory separator: the part
\* before the last dot, unless only dots come before it.
SplitExt(s, i) ==
    IF i > 0 /\ \E j \in 1..(i - 1) : s[j] # "." THEN SubSeq(s, 1, i - 1) ELSE s

\* clean_filename of scan.py: the length is taken before splitext; the
\* cleaned name, or None (<<>>).
ScanLengthCheck(cleaned_content) ==
    IF 15 <= Len(cleaned_content) /\ Len(cleaned_content) <= 100
    THEN SplitExt(cleaned_content, LastDot(cleaned_content))
    ELSE <<>>

ScanCleanFilename(filename) ==
    ScanLengthCheck(SplitCamel(Strip(CollapseSpaces(ReplaceInvalid(filename)))))

\* The words proposals are made of.
WValid == <<"V","a","l","i","d">>
WFilename == <<"F","i","l","e","n","a","m","e">>
WCamel == <<"c","a","m","e","l">>
WCase == <<"C","a","s","e">>
WWith == <<"W","i","t","h">>
WExtension == <<"E","x","t","e","n","s","i","o","n">>
Words == {WValid, WFilename, WCamel, WCase, WWith, WExtension}

\* What stands between two words of a proposal: nothing (camelCase), an
\* underscore, a hyphen, a space, a run of underscores.
Separators == {<<>>, <<"_">>, <<"-">>, <<" ">>, <<"_","_","_">>}

\* What a proposal may end with: nothing, or an extension.
Extensions == {<<>>, <<".","p","d","f">>}

RECURSIVE Join(_, _)
\* The words ws joined by sep.
Join(ws_, sep) ==
    IF Len(ws_) = 0 THEN <<>>
    ELSE IF Len(ws_) = 1 THEN ws_[1]
    ELSE ws_[1] \o sep \o Join(Tail(ws_), sep)

\* c * n
Repeat(c, n) == [i \in 1..n |-> c]

\* The lengths of the one-letter proposals: around both ends of [15,100],
\* and those of the tests.
RepeatLengths == {1, 2, 14, 15, 16, 99, 100, 101, 150}

\* The proposals clean_filename is applied to: words joined by a
\* separator, with or without an extension, and repeated letters.
WordLists == UNION {[1..n -> Words] : n \in 1..MaxWords}
Proposed ==
    [words : WordLists, sep : Separators, ext : Extensions]
        \cup [words : {<<Repeat(c, n)>> : c \in {"A", "B"}, n \in RepeatLengths},
              sep : {<<>>}, ext : {<<>>}]

\* The string of a proposal.
Text(x) == Join(x.words, x.sep) \o x.ext

\* The longest PDF perform_pdf_ocr is called on, in pages.
MaxOcrPages == 11

\* What tesseract may make of the one faulty page of that PDF.
PageFaults == {"ok", "illegible", "badbytes", "undecodable"}

\* The largest counter in the names done/ holds before scan.py looks for a
\* free path.
MaxSuffix == 3

\* f"{base_name}_{counter}"
Suffixed(base_name, counter) == base_name \o <<"_">> \o Ordinal(counter)

RECURSIVE Stacked(_)
\* Report_1_2_..._k
Stacked(k) == IF k = 0 THEN <<"Report">> ELSE Suffixed(Stacked(k - 1), k)

\* The names (without the extension, which the loop keeps) done/ may hold
\* when a file that resolves to Report.pdf arrives.
DoneNames ==
    {<<"Report">>} \cup {Suffixed(<<"Report">>, k) : k \in 1..MaxSuffix}
        \cup {Stacked(k) : k \in 2..MaxSuffix}

RECURSIVE FreePath(_, _, _)
\* scan.py's loop: while os.path.exists(new_filepath), the next name is made
\* of splitext(new_filename), which is the name tried last, and the counter.
FreePath(existing, new_filename, counter) ==
    IF new_filename \notin existing THEN new_filename
    ELSE FreePath(existing, Suffixed(new_filename, counter), counter + 1)

\* The calls to make: the function and its arguments.
Pending ==
    [op : {"clean_filename"}, done : {FALSE}, x : Proposed]
        \cup [op : {"free_path"}, done : {FALSE}, existing : SUBSET DoneNames]
        \cup { c \in [op : {"perform_pdf_ocr"}, done : {FALSE}, pages : 1..MaxOcrPages,
                      quality : PageFaults, faulty : 0..(MaxOcrPages - 1)] :
                  c.faulty < c.pages }

\* The documents of a pending call: a.pdf is the PDF perform_pdf_ocr is
\* called on, with one page the quality is about.
DocsFor(c) ==
    IF c.op = "perform_pdf_ocr"
    THEN [Sound EXCEPT !["a"] = Doc(c.pages, c.quality, {c.faulty})]
    ELSE Sound

\* A function is about to be applied on its own, outside a run.
InitCalls ==
    /\ args = [dry_run |-> FALSE, rename |-> FALSE, move |-> FALSE, copy |-> FALSE,
               summarize |-> FALSE, debug |-> FALSE, test_llm |-> FALSE,
               progress_bar |-> FALSE, directory |-> "none"]
    /\ call \in Pending
    /\ docs = DocsFor(call)
    /\ InitTree(FreshTree)
    /\ ws = EmptyFn
    /\ wsExists = FALSE
    /\ pc = "start"
    /\ stack = <<>>
    /\ cur = Idle
    /\ exitCode = -1
    /\ last = NoLast
    /\ config = FullConfig

\* The result of clean_filename(filename), of ai-rename.py and of scan.py.
Cleaned(x, filename) ==
    [op |-> "clean_filename", done |-> TRUE, words |-> x.words, sep |-> x.sep,
     ext |-> x.ext, input |-> filename, out |-> CleanFilename(filename),
     scan |-> ScanCleanFilename(filename)]

\* clean_filename(filename) is called.
CallCleanFilename ==
    /\ call.op = "clean_filename"
    /\ ~call.done
    /\ call' = Cleaned(call.x, Text(call.x))
    /\ UNCHANGED <<args, docs, fs, dirs, ws, wsExists, pc, stack, cur, exitCode,
                   last, hist, config>>

\* scan.py, for a file whose cleaned name is Report: the path it is placed
\* at in DONE_DIR.
CallFreePath ==
    /\ call.op = "free_path"
    /\ ~call.done
    /\ call' = [op |-> "free_path", done |-> TRUE, existing |-> call.existing,
                out |-> FreePath(call.existing, <<"Report">>, 1)]
    /\ UNCHANGED <<args, docs, fs, dirs, ws, wsExists, pc, stack, cur, exitCode,
                   last, hist, config>>

\* What a perform_pdf_ocr call returned: the pages of ocr_text in the
\* order they were appended, and what the call did.
OcrReturned(c, r) ==
    [op |-> c.op, done |-> TRUE, pages |-> c.pages, quality |-> c.quality,
     faulty |-> c.faulty, text |-> r.text, tools |-> r.tools, raised |-> r.raised]

\* perform_pdf_ocr(a.pdf) in an empty RunWorkspace.
CallPerformPdfOcr ==
    /\ call.op = "perform_pdf_ocr"
    /\ ~call.done
    /\ call' = OcrReturned(call, PerformPdfOcr(ws, fs, FileA))
    /\ ws' = PerformPdfOcr(ws, fs, FileA).w
    /\ UNCHANGED <<args, docs, fs, dirs, wsExists, pc, stack, cur, exitCode,
                   last, hist, config>>

NextCalls ==
    \/ CallCleanFilename
    \/ CallFreePath
    \/ CallPerformPdfOcr

SpecCalls == InitCalls /\ [][NextCalls]_vars

\* ------------------------------------------------------------- properties

\* The tools that rasterize, enhance or binarize.
ImageTools == {"rasterize", "enhance", "binarize"}

\* The tools of `kinds` among the invocations of a perform_ocr call.
Invoked(tools, kinds) == {i \in 1..Len(tools) : tools[i].tool \in kinds}

\* process_file ran move_or_copy_file for the last file, outside dry-run.
RelocateCalled == last.outcome \in {"moved", "renamed", "copied", "copy_only", "failed"}

\* C1: when perform_ocr ran twice on the same source within one
\* RunWorkspace (process_pdf/process_image, then generate_summary), the
\* second call invokes no rasterize, enhance or binarize tool and returns
\* the text the first call returned.
C1_SecondOcrIsCacheHit ==
    (last.ocr1.called /\ last.ocr2.called) =>
        /\ Invoked(last.ocr2.tools, ImageTools) = {}
        /\ last.ocr2.text = last.ocr1.text

\* C2: no file the run itself placed into done/ or <orig_subdir>/ is later
\* picked up as a WorkItem by the same walk.
C2_NoFileRepicked == hist.repicked = {}

\* C3: under dry-run no file of the tree is moved, created or altered, and
\* done/ and <orig_subdir>/ are not created.
C3_DryRunLeavesTree == args.dry_run => (fs = hist.fs0 /\ dirs = hist.dirs0)

\* C4: relocation replaces no file that was in done/ before it; the
\* relocated file goes to a path that was free.
C4_NoOverwriteInDone == RelocateCalled => last.replaced = {}

\* C5: the run never ends with a fatal exit once a WorkItem has been
\* touched.
C5_NoFatalAfterTouch == ~hist.fatalAfterTouch

\* C6: when the naming-service call for a WorkItem fails, the source file
\* is still at its original path, and process_file created, removed and
\* replaced no file of the tree.
C6_NamingFailureLeavesFile ==
    (last.picked /\ last.naming.called /\ last.naming.first # "ok") =>
        /\ last.path \in DOMAIN fs
        /\ last.created = {}
        /\ last.removed = {}
        /\ last.replaced = {}

\* A WorkItem whose naming call failed, after process_file returned.
C6_Witness ==
    /\ last.picked
    /\ last.naming.called
    /\ last.naming.first \in {"http400", "network", "nochoice"}
    /\ ~args.dry_run
    /\ last.path \in DOMAIN fs

\* The retry policy of C7 for one call: at most two requests, a second one
\* exactly when the first met the bad-request class `bad`, and a failed
\* call ends empty without an exception.
RetryPolicy(c, bad, empty) ==
    c.called =>
        /\ c.requests <= 2
        /\ (c.requests = 2) <=> (c.first = bad)
        /\ c.first # "ok" => ~c.raised
        /\ (c.first \notin {"ok", bad}) => empty

\* C7: generate_filename and call_llm send at most two requests per call, a
\* second one exactly when the first failed with the bad-request class,
\* and every other failure ends the call after one request with an empty
\* result instead of an exception.
C7_RetryPolicy ==
    /\ RetryPolicy(last.naming, "http400", last.naming.name = <<>>)
    /\ RetryPolicy(last.llm, "badrequest", last.llm.text = "")

\* C8: in move mode a WorkItem with non-empty OCR text, a proposal that
\* was not refused and no filesystem failure ends with the source gone
\* from its path, the file at done/<canonicalName><ext>, and nothing else
\* created.
C8_MoveModeMoves ==
    (/\ args.move
     /\ ~args.dry_run
     /\ last.picked
     /\ last.ocr1.text # <<>>
     /\ last.naming.called => last.cleaned # <<>>
     /\ last.outcome # "failed") =>
        /\ last.path \notin DOMAIN fs
        /\ last.target \in DOMAIN fs
        /\ last.created \subseteq {last.target}

\* C9: in copy mode, after move_or_copy_file returned without the copy
\* itself having failed, the duplicate is at done/<canonicalName><ext> and
\* the original at <orig_subdir>/<originalName>: never only one of the two.
C9_CopyModeKeepsBoth ==
    (args.copy /\ RelocateCalled /\ last.outcome # "failed") =>
        /\ last.target \in DOMAIN fs
        /\ Path(Append(last.path.dir, "orig"), last.path.base, last.path.ext)
              \in DOMAIN fs

\* C10: when the process has ended, the RunWorkspace is gone if the debug
\* flag is not set, and is still there if the flag is set and the run
\* ended normally.
C10_WorkspaceTornDownUnlessDebug ==
    pc = "exited" =>
        /\ ~args.debug => ~wsExists
        /\ (args.debug /\ exitCode = 0) => wsExists

\* A call of clean_filename has returned.
CleanReturned == call.op = "clean_filename" /\ call.done

\* s ends with t.
EndsWith(s, t) == Len(s) >= Len(t) /\ SubSeq(s, Len(s) - Len(t) + 1, Len(s)) = t

\* The name of a proposal once its extension is stripped and its
\* characters are replaced, its whitespace collapsed and its camelCase
\* split.
FullyProcessed(x) ==
    SplitCamel(Strip(CollapseSpaces(ReplaceInvalid(Join(x.words, x.sep)))))

\* What C11 says of an accepted name y.
WellFormed(y) ==
    /\ Len(y) \in 15..100
    /\ \A i \in 1..Len(y) : y[i] \in Lower \cup Upper \cup Digit \cup {" "}
    /\ y[1] # " "
    /\ y[Len(y)] # " "

\* C11: clean_filename accepts exactly when the length of the fully
\* processed name (characters replaced, whitespace collapsed, camelCase
\* split, extension stripped) is in [15,100]; an accepted name has a length
\* in [15,100], only characters of [A-Za-z0-9 ] and no space at either end;
\* 'A'*101 and 'BB' are rejected.
C11_AcceptsByProcessedLength ==
    CleanReturned =>
        /\ (call.out # <<>>) <=> (Len(FullyProcessed(call)) \in 15..100)
        /\ (call.scan # <<>>) <=> (Len(FullyProcessed(call)) \in 15..100)
        /\ call.out # <<>> => WellFormed(call.out)
        /\ call.scan # <<>> => WellFormed(call.scan)
        /\ call.input \in {Repeat("A", 101), Repeat("B", 2)} =>
              call.out = <<>> /\ call.scan = <<>>

\* C12: a name clean_filename accepted is accepted again and returned
\* unchanged, by ai-rename.py's function and by scan.py's.
C12_Idempotent ==
    CleanReturned =>
        /\ call.out # <<>> => CleanFilename(call.out) = call.out
        /\ call.scan # <<>> => ScanCleanFilename(call.scan) = call.scan

\* A proposal that clean_filename accepted and changed.
C12_Witness ==
    /\ CleanReturned
    /\ call.out # <<>>
    /\ call.out # call.input
    /\ call.sep = <<>>
    /\ Len(call.words) = 3

\* C13: clean_filename("Valid_Filename") and clean_filename("Valid-Filename")
\* are "Valid Filename", clean_filename("ValidFilename") is "ValidFilename",
\* clean_filename("camelCaseFilename") is "camel Case Filename"; words
\* separated by runs of non-alphanumeric characters come back joined by
\* single spaces.
C13_CleanedNames ==
    CleanReturned =>
        /\ call.input \in {Join(<<WValid, WFilename>>, <<"_">>),
                           Join(<<WValid, WFilename>>, <<"-">>)} =>
              call.out = Join(<<WValid, WFilename>>, <<" ">>)
        /\ call.input = WValid \o WFilename => call.out = WValid \o WFilename
        /\ call.input = WCamel \o WCase \o WFilename =>
              call.out = Join(<<WCamel, WCase, WFilename>>, <<" ">>)
        /\ (call.sep # <<>> /\ call.ext = <<>>) =>
              call.out = Join(call.words, <<" ">>)

\* C14: clean_filename strips the extension before the length check:
\* "FilenameWithExtension.pdf" gives "FilenameWithExtension",
\* "Filename_With_Extension.pdf" gives "Filename With Extension", and no
\* accepted name ends with the proposal's extension.
C14_ExtensionStripped ==
    (CleanReturned /\ call.ext # <<>>) =>
        /\ call.input = WFilename \o WWith \o WExtension \o call.ext =>
              /\ call.out = WFilename \o WWith \o WExtension
              /\ call.scan = WFilename \o WWith \o WExtension
        /\ call.input = Join(<<WFilename, WWith, WExtension>>, <<"_">>) \o call.ext =>
              /\ call.out = Join(<<WFilename, WWith, WExtension>>, <<" ">>)
              /\ call.scan = Join(<<WFilename, WWith, WExtension>>, <<" ">>)
        /\ ~EndsWith(call.out, Tail(call.ext))
        /\ ~EndsWith(call.scan, Tail(call.ext))

\* Report, Report_1, ..., Report_{k-1}
Taken(k) == {<<"Report">>} \cup {Suffixed(<<"Report">>, j) : j \in 1..(k - 1)}

\* C16: when done/ holds Report, Report_1, ..., Report_{k-1} and not
\* Report_k, the colliding file is placed at Report_k, and the path it is
\* placed at is always free.
C16_IncrementingSuffix ==
    (call.op = "free_path" /\ call.done) =>
        /\ call.out \notin call.existing
        /\ \A k \in 1..MaxSuffix :
              (Taken(k) \subseteq call.existing
                  /\ Suffixed(<<"Report">>, k) \notin call.existing) =>
                    call.out = Suffixed(<<"Report">>, k)

\* C15: relocation of a WorkItem is attempted only after OCR returned
\* non-empty text, the naming call returned a non-empty proposal and
\* clean_filename accepted it, in this order; when a stage fails no later
\* stage runs, and the file is still at its path with no file of the tree
\* created, removed or replaced.
C15_StagesInOrder ==
    last.picked =>
        /\ last.naming.called =>
              (last.ocr1.called /\ ~last.ocr1.raised /\ last.ocr1.text # <<>>)
        /\ last.cleaned # <<>> =>
              (last.naming.called /\ ~last.naming.raised /\ last.naming.name # <<>>
                  /\ last.cleaned = CleanFilename(last.naming.name))
        /\ last.outcome # "none" => last.cleaned # <<>>
        /\ last.outcome = "none" =>
              /\ last.path \in DOMAIN fs
              /\ last.target = NoTarget
              /\ last.created = {}
              /\ last.removed = {}
              /\ last.replaced = {}

\* A WorkItem that went through the three stages and was relocated.
C15_Witness ==
    /\ last.picked
    /\ last.outcome \in {"moved", "renamed", "copied"}
    /\ last.ocr1.text # <<>>
    /\ last.cleaned # <<>>
    /\ last.path \notin DOMAIN fs \/ last.outcome = "copied"

\* C19: with a Configuration that lacks LANGUAGE, API_TOKEN or the prompts,
\* the run ends fatally and no WorkItem is ever picked.
C19_PartialConfigIsFatal ==
    config # FullConfig =>
        /\ ~hist.touched
        /\ pc = "exited" => exitCode # 0

\* C20: under --progress-bar every value passed to bar.update lies in
\* 0..total_files, and the value is total_files exactly when no eligible
\* file of the directory is left to process.
C20_ProgressWithinTotal ==
    cur.bar =>
        /\ cur.updated \in 0..cur.total
        /\ (cur.updated = cur.total) <=> (TotalFiles(cur.files) = 0)

\* A perform_pdf_ocr call that returned or raised.
OcrDone == call.op = "perform_pdf_ocr" /\ call.done

\* The page ordinals of ocr_text, in the order the texts were joined.
PagesOf(text) == [i \in 1..Len(text) |-> text[i].img.page]

\* C17: for a PDF of any number of pages whose pages are all recognized,
\* ocr_text holds the text of every page once, joined in ascending order
\* of page ordinal.
C17_PagesInOrdinalOrder ==
    (OcrDone /\ call.quality = "ok") =>
        PagesOf(call.text) = [i \in 1..call.pages |-> i - 1]

\* C18: a recognition failure on one page (a non-zero exit, undecodable
\* output, or both) does not keep the other pages from being recognized:
\* perform_pdf_ocr returns, and ocr_text holds the text of every other
\* page; undecodable output alone is decoded again, dropping the invalid
\* bytes.
C18_FailedPageDoesNotStopLoop ==
    OcrDone =>
        /\ ~call.raised
        /\ \A k \in (0..(call.pages - 1)) \ {call.faulty} :
              \E i \in 1..Len(call.text) :
                  call.text[i].img.page = k /\ ~call.text[i].lossy
        /\ call.quality = "badbytes" =>
              \E i \in 1..Len(call.text) :
                  call.text[i].img.page = call.faulty /\ call.text[i].lossy
        /\ call.quality = "illegible" =>
              \A i \in 1..Len(call.text) : call.text[i].img.page # call.faulty

\* The tools of perform_ocr that write a file.
WritingTools == {"rasterize", "enhance", "binarize"}

\* C22: OCR extraction never alters a source file: every writing tool
\* perform_ocr invoked for the latest WorkItem wrote inside the
\* RunWorkspace, and no file of the tree has had its content altered.
C22_OcrLeavesSourceUnaltered ==
    /\ \A p \in DOMAIN fs : ~fs[p].altered
    /\ \A i \in Invoked(last.ocr1.tools, WritingTools) : last.ocr1.tools[i].inWs

\* The document the latest WorkItem is, when its path held a file of the
\* initial tree that the run had not written to.
OwnSource == last.path \in DOMAIN hist.fs0 /\ last.path \notin hist.placed
SourceId == hist.fs0[last.path].id

\* C21: cache entries are never shared between sources: the page texts
\* perform_ocr returned for a WorkItem come from images derived from that
\* WorkItem's own file, and a PDF is not rasterized (a cache hit) only when
\* the RunWorkspace holds images derived from it.
C21_CacheNotShared ==
    (last.picked /\ last.ocr1.called /\ OwnSource) =>
        /\ \A i \in 1..Len(last.ocr1.text) : last.ocr1.text[i].img.src = SourceId
        /\ (last.path.ext = ".pdf" /\ Invoked(last.ocr1.tools, {"rasterize"}) = {}) =>
              \E n \in DOMAIN ws : ws[n].src = SourceId
====
